---- MODULE Spec2Model ----
(***************************************************************************)
(* The Tetration Ansible modules (library/tetration_*.py) as a state       *)
(* machine.  Every module is a separate program whose main() is one        *)
(* run-to-completion invocation against the remote platform: it reads the  *)
(* collections of the platform through TetrationApiModule, compares them   *)
(* with its parameters and issues POST, PUT and DELETE calls.              *)
(*                                                                         *)
(* The state is the remote platform (tenants, roles, users, NAT configs,   *)
(* interface intents, app scopes), the interpreter that runs the module,   *)
(* and the record of the last invocation: its parameters, how it exited,   *)
(* the JSON it returned and the mutating calls it issued, in order.        *)
(*                                                                         *)
(* A behaviour is a sequence of plays of one module (program).  A play     *)
(* fixes the parameters of its task and runs it any number of times with   *)
(* state and check mode varying (present, present again, query, absent,    *)
(* absent again ...); between plays the controller forgets the registered  *)
(* result and the platform keeps its state.  A behaviour holds at most     *)
(* MaxPlays plays.  The collections a module never writes are fixed by     *)
(* Init.                                                                   *)
(*                                                                         *)
(* Python values: None of a string-typed value is NoStr, None of an        *)
(* integer-typed value is NoInt; "" and 0 are distinct from None and are   *)
(* falsy.  An object returned by the API is Null, a record, a list or a    *)
(* dictionary, tagged by kind.  Identifiers are modelled by their numeric  *)
(* value.                                                                  *)
(***************************************************************************)
EXTENDS Integers, Sequences, FiniteSets, TLC

VARIABLES program, python, tenants, roles, users, nat_configs, intents,
          scopes, plays, task, last, race

vars == <<program, python, tenants, roles, users, nat_configs, intents,
          scopes, plays, task, last, race>>

remote == <<tenants, roles, users, nat_configs, intents, scopes>>

-----------------------------------------------------------------------------
(* Python values *)

NoStr == "<None>"

NoInt == 0 - 1

TruthyStr(s) == s # NoStr /\ s # ""

TruthyInt(n) == n # NoInt /\ n # 0

\* A value whose Python type matters: the id of a tenant is an integer on the
\* platform and a string where a module declares the parameter type='str'.
PyStr(s) == [str |-> s]
PyInt(n) == [int |-> n]
PyNone == [none |-> TRUE]

\* int(s)
ParseInt(s) ==
  CASE s = "676769" -> 676769
    [] s = "999" -> 999

Null == [kind |-> "null"]

EmptyDict == [kind |-> "emptydict"]

Rec(r) == [kind |-> "record", val |-> r]

List(s) == [kind |-> "list", val |-> s]

Dict(d) == [kind |-> "dict", val |-> d]

\* bool(obj) of an API object
Truthy(o) ==
  \/ o.kind = "record"
  \/ o.kind = "dict"
  \/ o.kind = "list" /\ o.val # <<>>

NoFields == [k \in {} |-> NoStr]

Field(k, v) == k :> v

\* d[k] of a payload dictionary, default when the key is missing
Get(d, k, default) == IF k \in DOMAIN d THEN d[k] ELSE default

\* the record rec with the fields of payload written over it
Merge(rec, payload) ==
  [f \in DOMAIN rec |-> IF f \in DOMAIN payload THEN payload[f] ELSE rec[f]]

Call(method, target, id, payload) ==
  [method |-> method, target |-> target, id |-> id, payload |-> payload]

Mutating == {"post", "put", "delete"}

-----------------------------------------------------------------------------
(* The remote platform behind TetrationApiModule *)

RECURSIVE SortById(_)
SortById(S) ==
  IF S = {} THEN <<>>
  ELSE LET m == CHOOSE r \in S : \A q \in S : r.id <= q.id
       IN <<m>> \o SortById(S \ {m})

\* get_object: the one record of the collection matching the filter, or None
GetObject(hits) ==
  IF hits = {} THEN Null
  ELSE IF Cardinality(hits) = 1 THEN Rec(CHOOSE r \in hits : TRUE)
  ELSE Rec(SortById(hits)[1])

GetById(S, id) == GetObject({r \in S : r.id = id})

Ids(S) == {r.id : r \in S}

\* PUT <target>/<id>
PutById(S, id, payload) ==
  {IF r.id = id THEN Merge(r, payload) ELSE r : r \in S}

\* DELETE <target>/<id>
DeleteById(S, id) == {r \in S : r.id # id}

\* POST roles
PostRole(S, nid, payload) ==
  S \cup {[id |-> nid,
           name |-> Get(payload, "name", NoStr),
           description |-> Get(payload, "description", NoStr),
           app_scope_id |-> Get(payload, "app_scope_id", ""),
           capabilities |-> {}]}

\* POST roles/<id>/capabilities
PostCapability(S, id, payload) ==
  {IF r.id = id
     THEN [r EXCEPT !.capabilities = @ \cup
             {[ability |-> payload.ability, app_scope_id |-> payload.app_scope_id]}]
     ELSE r : r \in S}

\* the time the platform or time.time() reads
Now == 1

\* POST users
PostUser(S, nid, payload) ==
  S \cup {[id |-> nid,
           email |-> Get(payload, "email", NoStr),
           first_name |-> Get(payload, "first_name", NoStr),
           last_name |-> Get(payload, "last_name", NoStr),
           app_scope_id |-> Get(payload, "app_scope_id", ""),
           disabled_at |-> NoInt,
           role_ids |-> <<>>]}

\* POST users/<id>/enable
EnableUser(S, id) ==
  {IF r.id = id THEN [r EXCEPT !.disabled_at = NoInt] ELSE r : r \in S}

\* DELETE users/<id>: the account is disabled, never removed
DisableUser(S, id) ==
  {IF r.id = id THEN [r EXCEPT !.disabled_at = Now] ELSE r : r \in S}

InSeq(x, seq) == \E i \in DOMAIN seq : seq[i] = x

\* PUT users/<id>/add_role
AddRole(S, id, role) ==
  {IF r.id = id /\ ~InSeq(role, r.role_ids)
     THEN [r EXCEPT !.role_ids = Append(@, role)] ELSE r : r \in S}

\* DELETE users/<id>/remove_role
RemoveRole(S, id, role) ==
  {IF r.id = id
     THEN [r EXCEPT !.role_ids = SelectSeq(@, LAMBDA x : x # role)] ELSE r : r \in S}

\* an integer field of the platform holds an integer whatever JSON type was sent
IntField(v) == IF "int" \in DOMAIN v THEN v.int ELSE ParseInt(v.str)

\* POST tenants: the platform keeps the id it is sent
PostTenant(S, payload) ==
  S \cup {[id |-> IntField(payload.id),
           name |-> Get(payload, "name", NoStr),
           switch_vrfs |-> Get(payload, "switch_vrfs", <<>>)]}

\* POST agentnatconfig
PostNatConfig(S, nid, payload) ==
  S \cup {[id |-> nid,
           vrf_id |-> Get(payload, "vrf_id", NoInt),
           src_subnet |-> Get(payload, "src_subnet", NoStr),
           src_port_range_start |-> Get(payload, "src_port_range_start", NoInt),
           src_port_range_end |-> Get(payload, "src_port_range_end", NoInt)]}

\* GET inventory_config/interface_intents
GetIntents(its) == Dict([intents |-> its])

\* POST inventory_config/interface_intents: the list sent replaces the list kept
PostIntents(its, payload) ==
  [i \in DOMAIN payload.intents |->
     [payload.intents[i] EXCEPT !.vrf_id = PyInt(IntField(@))]]

-----------------------------------------------------------------------------
(* Bounds of the model *)

MaxPlays == 2

RoleIds == {1, 2}

\* how an invocation ends
ExitJson(result, calls) == [exit |-> "exit_json", result |-> result, calls |-> calls]

FailJson(msg, calls) ==
  [exit |-> "fail_json", result |-> [failed |-> TRUE, msg |-> msg], calls |-> calls]

-----------------------------------------------------------------------------
(* tetration_role.py *)

CAPABILITIES(ability) ==
  CASE ability = "read" -> "SCOPE_READ"
    [] ability = "write" -> "SCOPE_WRITE"
    [] ability = "execute" -> "EXECUTE"
    [] ability = "developer" -> "DEVELOPER"
    [] ability = "enforce" -> "ENFORCE"
    [] ability = "owner" -> "SCOPE_OWNER"

\* lines 209-251: the state read; existing_object and id
RoleExisting(p, rs) ==
  IF p.id # NoInt
    THEN GetById(rs, p.id)
    ELSE IF p.name # NoStr
      THEN GetObject({r \in rs : r.name = p.name /\ r.app_scope_id = p.app_scope_id})
      ELSE EmptyDict

RoleId(p, rs) ==
  IF p.id # NoInt THEN p.id
  ELSE IF Truthy(RoleExisting(p, rs)) THEN RoleExisting(p, rs).val.id
  ELSE NoInt

RoleNewObjectResetting(p, creating) ==
  Field("capabilities", {})
  @@ (IF p.description # NoStr THEN Field("description", p.description) ELSE NoFields)
  @@ (IF p.name # NoStr THEN Field("name", p.name) ELSE NoFields)

\* lines 265-269 and 274-275: new_object
RoleNewObject(p, creating) ==
  (IF p.description # NoStr THEN Field("description", p.description) ELSE NoFields)
  @@ (IF p.name # NoStr THEN Field("name", p.name) ELSE NoFields)
  @@ (IF creating /\ p.app_scope_id # "" THEN Field("app_scope_id", p.app_scope_id)
      ELSE NoFields)

\* line 288: the name or the description differs
RoleDiffers(p, existing) ==
  \/ p.name # NoStr /\ existing.name # p.name
  \/ p.description # NoStr /\ existing.description # p.description

RoleCapabilityNeverFound(p, existing) == TRUE

\* lines 298-305: the capability asked for is not among the existing ones
RoleCapabilityMissing(p, existing) ==
  LET my_ability == CAPABILITIES(p.capability_ability)
      my_scope == p.capability_appscope
      t == IF Truthy(existing)
             THEN {<<c.ability, c.app_scope_id>> : c \in existing.val.capabilities}
             ELSE {}
  IN <<my_ability, my_scope>> \notin t

\* lines 263-326: state == 'present'
RolePresent(p, check, rs, nid) ==
  LET existing == RoleExisting(p, rs)
      creating == ~Truthy(existing)
      new_object == RoleNewObject(p, creating)
      update == ~creating /\ RoleDiffers(p, existing.val)
      id == IF creating /\ ~check THEN nid ELSE RoleId(p, rs)
      calls1 == IF check THEN <<>>
                ELSE IF creating THEN <<Call("post", "roles", NoInt, new_object)>>
                ELSE IF update THEN <<Call("put", "roles/id", id, new_object)>>
                ELSE <<>>
      rs1 == IF check THEN rs
             ELSE IF creating THEN PostRole(rs, nid, new_object)
             ELSE IF update THEN PutById(rs, id, new_object)
             ELSE rs
      addcap == p.capability_ability # NoStr /\ RoleCapabilityMissing(p, existing)
      cap == [app_scope_id |-> p.capability_appscope,
              ability |-> CAPABILITIES(p.capability_ability)]
      calls2 == IF addcap /\ ~check
                  THEN calls1 \o <<Call("post", "roles/id/capabilities", id, cap)>>
                  ELSE calls1
      rs2 == IF addcap /\ ~check THEN PostCapability(rs1, id, cap) ELSE rs1
      changed == creating \/ update \/ addcap
      object == IF ~changed THEN existing
                ELSE IF check THEN Dict(new_object)
                ELSE GetById(rs2, id)
  IN ExitJson([failed |-> FALSE, object |-> object, changed |-> changed], calls2)
       @@ [roles |-> rs2, created |-> creating /\ ~check]

\* lines 332-341: state == 'absent'
RoleAbsent(p, check, rs) ==
  LET existing == RoleExisting(p, rs)
      changed == Truthy(existing)
      delete == changed /\ ~check
      id == RoleId(p, rs)
  IN ExitJson([failed |-> FALSE, object |-> Null, changed |-> changed],
              IF delete THEN <<Call("delete", "roles/id", id, NoFields)>> ELSE <<>>)
       @@ [roles |-> IF delete THEN DeleteById(rs, id) ELSE rs, created |-> FALSE]

RoleQueryDeleting(p, rs) == RoleAbsent(p, FALSE, rs)

\* lines 347-350: state == 'query'
RoleQuery(p, rs) ==
  ExitJson([failed |-> FALSE, object |-> RoleExisting(p, rs), changed |-> FALSE], <<>>)
    @@ [roles |-> rs, created |-> FALSE]

\* main() of tetration_role.py
RoleMain(state, p, check, rs, nid) ==
  IF p.id # NoInt /\ ~Truthy(RoleExisting(p, rs)) /\ state = "present"
    THEN FailJson("The ID specified does not exist", <<>>)
           @@ [roles |-> rs, created |-> FALSE]
  ELSE IF state = "present" THEN RolePresent(p, check, rs, nid)
  ELSE IF state = "absent" THEN RoleAbsent(p, check, rs)
  ELSE RoleQuery(p, rs)

RoleNames == {"admin", "ops"}

RoleScopes == {"", "s1"}

RoleDescriptions == {"d1"}

RoleAbilities == {"read", "write"}

\* the parameters AnsibleModule accepts (required_one_of, required_together)
RoleParams ==
  {p \in [name : RoleNames \cup {NoStr},
          description : RoleDescriptions \cup {NoStr},
          app_scope_id : RoleScopes,
          id : RoleIds \cup {NoInt},
          capability_appscope : {"s1", NoStr},
          capability_ability : RoleAbilities \cup {NoStr}] :
     /\ p.name # NoStr \/ p.id # NoInt
     /\ (p.capability_appscope = NoStr) <=> (p.capability_ability = NoStr)
     /\ (p.app_scope_id = "s1") <=> (p.name = "ops")}

\* an id the platform may give to a new record, NoInt when none is left
FreshIds(universe, S) ==
  IF universe \ Ids(S) = {} THEN {NoInt} ELSE universe \ Ids(S)

States == {"present", "absent", "query"}

Invocation(state, check, r) ==
  [program |-> program, state |-> state, params |-> task, check_mode |-> check,
   exit |-> r.exit, result |-> r.result, calls |-> r.calls]

NoTask == [none |-> TRUE]

NoInvocation ==
  [program |-> "none", state |-> "none", params |-> NoTask, check_mode |-> FALSE,
   exit |-> "none", result |-> NoFields, calls |-> <<>>]

\* one run of tetration_role
Role(state) ==
  /\ program = "role"
  /\ task # NoTask
  /\ \E check \in BOOLEAN, nid \in FreshIds(RoleIds, roles) :
       LET r == RoleMain(state, task, check, roles, nid)
       IN /\ r.created => nid # NoInt
          /\ roles' = r.roles
          /\ last' = Invocation(state, check, r)
  /\ UNCHANGED <<race, program, python, tenants, users, nat_configs, intents, scopes,
                 plays, task>>

RolePresentRun == Role("present")

RoleAbsentRun == Role("absent")

RoleQueryRun == Role("query")

-----------------------------------------------------------------------------
(* tetration_user.py *)

UserIds == {1, 2}

\* lines 192-196 and 307-311: the user with this email, disabled ones included
UserExisting(p, us) == GetObject({r \in us : r.email = p.email})

UserDisabledNever(existing) == FALSE

\* line 197
UserDisabled(existing) == Truthy(existing) /\ existing.val.disabled_at # NoInt

\* ':' in app_scope_name
HasColon(name) == name = "Default:DC"

\* lines 221-224: the app scope of that name
UserAppScope(p, sc) == GetObject({r \in sc : r.name = p.app_scope_name})

\* line 225: the scope name does not resolve to a root scope
UserScopeError(p, sc) ==
  /\ TruthyStr(p.app_scope_name)
  /\ ~Truthy(UserAppScope(p, sc)) \/ HasColon(p.app_scope_name)

\* line 237: module.params['app_scope_id'] once the scope name is resolved
UserScopeParam(p, sc) ==
  IF TruthyStr(p.app_scope_name) THEN UserAppScope(p, sc).val.id ELSE p.app_scope_id

\* lines 212-218 and 236: new_object
UserNewObject(p, sc) ==
  Field("email", p.email)
  @@ (IF p.first_name # NoStr THEN Field("first_name", p.first_name) ELSE NoFields)
  @@ (IF p.last_name # NoStr THEN Field("last_name", p.last_name) ELSE NoFields)
  @@ (IF UserScopeParam(p, sc) # NoStr
        THEN Field("app_scope_id", UserScopeParam(p, sc)) ELSE NoFields)

UserUpdateNeededAlways(p, sc, existing) ==
  \/ existing.first_name # p.first_name
  \/ existing.last_name # p.last_name
  \/ existing.app_scope_id # UserScopeParam(p, sc)

\* lines 262-265: update_needed
UserUpdateNeeded(p, sc, existing) ==
  \/ p.first_name # NoStr /\ existing.first_name # p.first_name
  \/ p.last_name # NoStr /\ existing.last_name # p.last_name
  \/ UserScopeParam(p, sc) # NoStr /\ existing.app_scope_id # UserScopeParam(p, sc)

UserEnableCallsNone(check, disabled, id) == <<>>

\* line 254-259: the enable call is issued whatever the check mode is
UserEnableCalls(check, disabled, id) ==
  IF disabled THEN <<Call("post", "users/id/enable", id, NoFields)>> ELSE <<>>

\* lines 210-286: state == 'present'
UserPresent(p, check, us, sc, nid) ==
  LET existing == UserExisting(p, us)
      creating == ~Truthy(existing)
      disabled == UserDisabled(existing)
      new_object == UserNewObject(p, sc)
      id == IF creating THEN (IF check THEN NoInt ELSE nid) ELSE existing.val.id
      enable == UserEnableCalls(check, ~creating /\ disabled, id)
      us1 == IF creating /\ ~check THEN PostUser(us, nid, new_object)
             ELSE IF enable # <<>> THEN EnableUser(us, id)
             ELSE us
      update == ~creating /\ UserUpdateNeeded(p, sc, existing.val)
      calls == (IF creating /\ ~check
                  THEN <<Call("post", "users", NoInt, new_object)>> ELSE <<>>)
               \o enable
               \o (IF update /\ ~check
                     THEN <<Call("put", "users/id", id, new_object)>> ELSE <<>>)
      us2 == IF update /\ ~check THEN PutById(us1, id, new_object) ELSE us1
      changed == creating \/ (~creating /\ disabled) \/ update
      object == IF ~changed THEN existing
                ELSE IF check THEN Dict(new_object)
                ELSE GetById(us2, id)
  IN ExitJson([failed |-> FALSE, object |-> object, changed |-> changed], calls)
       @@ [users |-> us2, created |-> creating /\ ~check]

\* lines 292-312: state == 'absent'
UserAbsent(p, check, us) ==
  LET existing == UserExisting(p, us)
      changed == Truthy(existing) /\ ~UserDisabled(existing)
      delete == changed /\ ~check
      us1 == IF delete THEN DisableUser(us, existing.val.id) ELSE us
      object == IF ~changed THEN existing
                ELSE IF check THEN Rec([existing.val EXCEPT !.disabled_at = Now])
                ELSE UserExisting(p, us1)
  IN ExitJson([failed |-> FALSE, object |-> object, changed |-> changed],
              IF delete THEN <<Call("delete", "users/id", existing.val.id, NoFields)>>
              ELSE <<>>)
       @@ [users |-> us1, created |-> FALSE]

\* lines 318-321: state == 'query'
UserQuery(p, us) ==
  ExitJson([failed |-> FALSE, object |-> UserExisting(p, us), changed |-> FALSE], <<>>)
    @@ [users |-> us, created |-> FALSE]

\* main() of tetration_user.py
UserMain(state, p, check, us, sc, nid) ==
  IF state = "present" /\ UserScopeError(p, sc)
    THEN FailJson("You specified an app scope name that does not exist", <<>>)
           @@ [users |-> us, created |-> FALSE]
  ELSE IF state = "present" THEN UserPresent(p, check, us, sc, nid)
  ELSE IF state = "absent" THEN UserAbsent(p, check, us)
  ELSE UserQuery(p, us)

UserEmails == {"bob@corp", "amy@corp"}

\* the parameters AnsibleModule accepts (email required, the scope id and name
\* mutually exclusive)
UserParams ==
  {p \in [email : UserEmails,
          first_name : {"Bob", NoStr},
          last_name : {"Smith", NoStr},
          app_scope_id : {"sD", NoStr},
          app_scope_name : {"Default", "Default:DC", "Nope", NoStr}] :
     /\ p.app_scope_id = NoStr \/ p.app_scope_name = NoStr
     /\ p.last_name # NoStr => p.first_name # NoStr
     /\ p.email = "amy@corp" => p.app_scope_id = NoStr /\ p.app_scope_name = NoStr}

\* one run of tetration_user
User(state) ==
  /\ program = "user"
  /\ task # NoTask
  /\ \E check \in BOOLEAN, nid \in FreshIds(UserIds, users) :
       LET r == UserMain(state, task, check, users, scopes, nid)
       IN /\ r.created => nid # NoInt
          /\ users' = r.users
          /\ last' = Invocation(state, check, r)
  /\ UNCHANGED <<race, program, python, tenants, roles, nat_configs, intents, scopes,
                 plays, task>>

UserPresentRun == User("present")

UserAbsentRun == User("absent")

UserQueryRun == User("query")

-----------------------------------------------------------------------------
(* tetration_user_sevt.py *)

ReuseDomain == "pool.io"

\* line 283: '%s@%s' % (existing_user['id'], reuse_domain)
SevtBlankEmail(id, reuse_domain) ==
  CASE id = 1 /\ reuse_domain = ReuseDomain -> "1@pool.io"
    [] id = 2 /\ reuse_domain = ReuseDomain -> "2@pool.io"

\* line 170: reuse_domain in obj['email']
SevtInDomain(reuse_domain, email) ==
  reuse_domain = ReuseDomain /\ email \in {"1@pool.io", "2@pool.io"}

\* lines 149-171: existing_user
SevtExisting(p, us) ==
  IF TruthyInt(p.user_id) THEN GetById(us, p.user_id)
  ELSE GetObject({r \in us : r.email = p.email})

SevtAvailableNone(p, us) == Null

\* lines 165-171: the first disabled account of the reuse domain that the
\* listing shows before the user looked for
SevtAvailable(p, us) ==
  LET all_users == SortById(us)
      stop == IF \E i \in DOMAIN all_users : all_users[i].email = p.email
                THEN CHOOSE i \in DOMAIN all_users :
                       /\ all_users[i].email = p.email
                       /\ \A j \in 1..(i - 1) : all_users[j].email # p.email
                ELSE Len(all_users) + 1
      free == {i \in 1..(stop - 1) :
                 /\ all_users[i].disabled_at # NoInt
                 /\ TruthyStr(p.reuse_domain)
                 /\ SevtInDomain(p.reuse_domain, all_users[i].email)}
  IN IF TruthyInt(p.user_id) \/ free = {} THEN Null
     ELSE Rec(all_users[CHOOSE i \in free : \A j \in free : i <= j])

\* lines 186-192 and 198-203: new_object
SevtNewObject(p, sc, creating) ==
  LET app_scope == GetObject({r \in sc : r.name = p.app_scope_name})
  IN Field("email", p.email)
     @@ (IF p.first_name # NoStr THEN Field("first_name", p.first_name) ELSE NoFields)
     @@ (IF p.last_name # NoStr THEN Field("last_name", p.last_name) ELSE NoFields)
     @@ (IF creating /\ ~TruthyStr(p.app_scope_id) /\ TruthyStr(p.app_scope_name)
           THEN Field("app_scope_id",
                      IF app_scope = Null THEN NoStr ELSE app_scope.val.id)
         ELSE IF p.app_scope_id # NoStr THEN Field("app_scope_id", p.app_scope_id)
         ELSE NoFields)

\* lines 241-244: update_needed
SevtUpdateNeeded(p, existing) ==
  \/ existing.email # p.email
  \/ p.first_name # NoStr /\ existing.first_name # p.first_name
  \/ p.last_name # NoStr /\ existing.last_name # p.last_name
  \/ p.app_scope_id # NoStr /\ existing.app_scope_id # p.app_scope_id

\* lines 232-237: the enable call is issued whatever the check mode is
SevtEnableCalls(check, disabled, id) ==
  IF disabled THEN <<Call("post", "users/id/enable", id, NoFields)>> ELSE <<>>

\* lines 194-225: the user does not exist
SevtCreate(p, check, us, sc, nid) ==
  LET new_object == SevtNewObject(p, sc, TRUE)
      available == SevtAvailable(p, us)
      reuse == Truthy(available)
      id == IF reuse THEN available.val.id ELSE nid
      calls == IF check THEN <<>>
               ELSE IF reuse
                 THEN <<Call("post", "users/id/enable", id, new_object),
                        Call("put", "users/id", id, new_object)>>
               ELSE <<Call("post", "users", NoInt, new_object)>>
      us1 == IF check THEN us
             ELSE IF reuse THEN PutById(EnableUser(us, id), id, new_object)
             ELSE PostUser(us, nid, new_object)
  IN ExitJson([failed |-> FALSE, changed |-> TRUE,
               object |-> IF check THEN Dict(new_object) ELSE GetById(us1, id)],
              calls)
       @@ [users |-> us1, created |-> ~check /\ ~reuse]

\* lines 229-251: the user exists
SevtUpdate(p, check, us, sc) ==
  LET existing == SevtExisting(p, us)
      id == existing.val.id
      disabled == UserDisabled(existing)
      new_object == SevtNewObject(p, sc, FALSE)
      enable == SevtEnableCalls(check, disabled, id)
      us1 == IF enable # <<>> THEN EnableUser(us, id) ELSE us
      update == SevtUpdateNeeded(p, existing.val)
      put == update /\ ~check
      us2 == IF put THEN PutById(us1, id, new_object) ELSE us1
      changed == disabled \/ update
  IN ExitJson([failed |-> FALSE, changed |-> changed,
               object |-> IF ~changed THEN existing
                          ELSE IF check THEN Dict(new_object)
                          ELSE GetById(us2, id)],
              enable \o (IF put THEN <<Call("put", "users/id", id, new_object)>>
                         ELSE <<>>))
       @@ [users |-> us2, created |-> FALSE]

\* lines 270-290: state == 'absent'
SevtAbsent(p, check, us) ==
  LET existing == SevtExisting(p, us)
      changed == Truthy(existing) /\ ~UserDisabled(existing)
      delete == changed /\ ~check
      id == existing.val.id
      blank == [email |-> SevtBlankEmail(id, p.reuse_domain)]
      rename == delete /\ TruthyStr(p.reuse_domain)
      us1 == IF rename THEN PutById(us, id, blank) ELSE us
      us2 == IF delete THEN DisableUser(us1, id) ELSE us1
  IN ExitJson([failed |-> FALSE, changed |-> changed,
               object |-> IF changed THEN existing ELSE Null],
              (IF rename THEN <<Call("put", "users/id", id, blank)>> ELSE <<>>)
              \o (IF delete THEN <<Call("delete", "users/id", id, NoFields)>> ELSE <<>>))
       @@ [users |-> us2, created |-> FALSE]

\* lines 296-299: state == 'query'
SevtQuery(p, us) ==
  ExitJson([failed |-> FALSE, object |-> SevtExisting(p, us), changed |-> FALSE], <<>>)
    @@ [users |-> us, created |-> FALSE]

\* main() of tetration_user_sevt.py
SevtMain(state, p, check, us, sc, nid) ==
  IF TruthyInt(p.user_id) /\ ~Truthy(SevtExisting(p, us))
    THEN FailJson("Unable to find user with id", <<>>)
           @@ [users |-> us, created |-> FALSE]
  ELSE IF state = "present" /\ ~Truthy(SevtExisting(p, us))
    THEN SevtCreate(p, check, us, sc, nid)
  ELSE IF state = "present" THEN SevtUpdate(p, check, us, sc)
  ELSE IF state = "absent" THEN SevtAbsent(p, check, us)
  ELSE SevtQuery(p, us)

\* the parameters AnsibleModule accepts (lines 116-122)
SevtParams ==
  {p \in [email : UserEmails,
          first_name : {"Bob", NoStr},
          last_name : {NoStr},
          app_scope_id : {"sD", NoStr},
          app_scope_name : {"Nope", NoStr},
          reuse_domain : {ReuseDomain, NoStr},
          user_id : {1, NoInt}] :
     /\ p.app_scope_id = NoStr \/ p.app_scope_name = NoStr
     /\ p.email = "amy@corp" => p.app_scope_id = NoStr /\ p.app_scope_name = NoStr
     /\ p.user_id # NoInt =>
          /\ p.email = "bob@corp" /\ p.first_name = NoStr
          /\ p.app_scope_id = NoStr /\ p.app_scope_name = NoStr}

\* one run of tetration_user_sevt
Sevt(state) ==
  /\ program = "user_sevt"
  /\ task # NoTask
  /\ \E check \in BOOLEAN, nid \in FreshIds(UserIds, users) :
       LET r == SevtMain(state, task, check, users, scopes, nid)
       IN /\ r.created => nid # NoInt
          /\ users' = r.users
          /\ last' = Invocation(state, check, r)
  /\ UNCHANGED <<race, program, python, tenants, roles, nat_configs, intents, scopes,
                 plays, task>>

SevtPresentRun == Sevt("present")

SevtAbsentRun == Sevt("absent")

SevtQueryRun == Sevt("query")

-----------------------------------------------------------------------------
(* tetration_user_role.py *)

\* lines 165-169: the enabled user with this email (include_disabled is not sent)
UserRoleExisting(p, us) ==
  GetObject({r \in us : r.email = p.email /\ r.disabled_at = NoInt})

UserRoleAddsAll(requested, existing_list, check, id) ==
  IF check THEN <<>>
  ELSE [i \in DOMAIN requested |->
          Call("put", "users/id/add_role", id, [role_id |-> requested[i]])]

\* lines 193-201: one add_role per requested role that the user does not hold
UserRoleAdds(requested, existing_list, check, id) ==
  LET missing == SelectSeq(requested, LAMBDA role : ~InSeq(role, existing_list))
  IN IF check THEN <<>>
     ELSE [i \in DOMAIN missing |->
             Call("put", "users/id/add_role", id, [role_id |-> missing[i]])]

UserRoleRemovableAlways(role, active_role_ids, check) == ~check

\* line 217: the role is removed only when the roles endpoint lists it
UserRoleRemovable(role, active_role_ids, check) ==
  ~check /\ role \in active_role_ids

\* lines 208-222: one remove_role per requested role that the user holds
UserRoleRemoves(requested, existing_list, active_role_ids, check, id) ==
  LET held == SelectSeq(requested, LAMBDA role :
                 InSeq(role, existing_list)
                 /\ UserRoleRemovable(role, active_role_ids, check))
  IN [i \in DOMAIN held |->
        Call("delete", "users/id/remove_role", id, [role_id |-> held[i]])]

\* lines 195 and 216: changed
UserRoleChanged(state, requested, existing_list) ==
  IF state = "present"
    THEN \E i \in DOMAIN requested : ~InSeq(requested[i], existing_list)
    ELSE \E i \in DOMAIN requested : InSeq(requested[i], existing_list)

RECURSIVE UserRoleApply(_, _)
UserRoleApply(us, calls) ==
  IF calls = <<>> THEN us
  ELSE LET c == Head(calls)
       IN UserRoleApply(IF c.method = "put" THEN AddRole(us, c.id, c.payload.role_id)
                        ELSE RemoveRole(us, c.id, c.payload.role_id),
                        Tail(calls))

\* main() of tetration_user_role.py
UserRoleMain(state, p, check, us, rs) ==
  LET existing == UserRoleExisting(p, us)
  IN IF ~Truthy(existing)
       THEN FailJson("The user does not exist or is disabled", <<>>) @@ [users |-> us]
     ELSE
       LET id == existing.val.id
           existing_list == existing.val.role_ids
           calls == IF state = "present"
                      THEN UserRoleAdds(p.role_ids, existing_list, check, id)
                      ELSE UserRoleRemoves(p.role_ids, existing_list, Ids(rs), check, id)
           us1 == UserRoleApply(us, calls)
       IN ExitJson([failed |-> FALSE, object |-> GetById(us1, id),
                    changed |-> UserRoleChanged(state, p.role_ids, existing_list)],
                   calls)
            @@ [users |-> us1]

\* role 3 is an id the roles endpoint does not list
UserRoleParams ==
  [email : UserEmails \cup {"zed@corp"},
   role_ids : {<<1>>, <<1, 2>>, <<3>>, <<2, 3>>}]

\* one run of tetration_user_role
UserRole(state) ==
  /\ program = "user_role"
  /\ task # NoTask
  /\ \E check \in BOOLEAN :
       LET r == UserRoleMain(state, task, check, users, roles)
       IN /\ users' = r.users
          /\ last' = Invocation(state, check, r)
  /\ UNCHANGED <<race, program, python, tenants, roles, nat_configs, intents, scopes,
                 plays, task>>

UserRolePresentRun == UserRole("present")

UserRoleAbsentRun == UserRole("absent")

-----------------------------------------------------------------------------
(* tetration_tenant.py *)

TenantIdStart == 676769

TenantFreeIdFixed(id, existing_ids) == id

\* lines 225-227: the first id, counting down from 676769, that no tenant has
RECURSIVE TenantFreeId(_, _)
TenantFreeId(id, existing_ids) ==
  IF id \in existing_ids THEN TenantFreeId(id - 1, existing_ids) ELSE id

\* switch_vrfs left out of the task
NoList == <<NoStr>>

\* line 137: switch_vrfs=dict(type='list', required=False, default=[])
TenantSwitchVrfs(p) == IF p.switch_vrfs = NoList THEN <<>> ELSE p.switch_vrfs

BuiltinTenants == {"Tetration", "Unknown", "Default"}

\* lines 181-217: existing_object
TenantExisting(state, p, query_type, ts) ==
  IF (state # "query" \/ query_type = "single") /\ p.id # NoStr
    THEN GetById(ts, ParseInt(p.id))
  ELSE IF (state # "query" \/ query_type = "single") /\ p.name # NoStr
    THEN GetObject({r \in ts : r.name = p.name})
  ELSE IF state = "query" /\ query_type = "all"
    THEN List(IF p.name \in BuiltinTenants THEN <<>> ELSE SortById(ts))
  ELSE EmptyDict

\* lines 195 and 219-227: id
TenantId(state, p, query_type, ts) ==
  LET existing == TenantExisting(state, p, query_type, ts)
  IN IF p.id # NoStr THEN PyStr(p.id)
     ELSE IF existing.kind = "record" THEN PyInt(existing.val.id)
     ELSE PyInt(TenantFreeId(TenantIdStart, Ids(ts)))

TenantNewObjectPartial(p, id, creating) ==
  (IF p.switch_vrfs # NoList THEN Field("switch_vrfs", p.switch_vrfs) ELSE NoFields)
  @@ (IF p.name # NoStr THEN Field("name", p.name) ELSE NoFields)
  @@ (IF creating THEN Field("id", id) ELSE NoFields)

\* lines 242-246 and 251: new_object
TenantNewObject(p, id, creating) ==
  Field("switch_vrfs", TenantSwitchVrfs(p))
  @@ (IF p.name # NoStr THEN Field("name", p.name) ELSE NoFields)
  @@ (IF creating THEN Field("id", id) ELSE NoFields)

Range(seq) == {seq[i] : i \in DOMAIN seq}

TenantDiffersAsLists(p, existing) ==
  \/ p.name # NoStr /\ existing.name # p.name
  \/ existing.switch_vrfs # TenantSwitchVrfs(p)

\* line 264: the name differs or the switch VRFs differ as sets
TenantDiffers(p, existing) ==
  \/ p.name # NoStr /\ existing.name # p.name
  \/ Range(existing.switch_vrfs) # Range(TenantSwitchVrfs(p))

\* lines 240-284: state == 'present'
TenantPresent(p, check, ts) ==
  LET existing == TenantExisting("present", p, "single", ts)
      id == TenantId("present", p, "single", ts)
      creating == ~Truthy(existing)
      new_object == TenantNewObject(p, id, creating)
      update == ~creating /\ TenantDiffers(p, existing.val)
      changed == creating \/ update
      calls == IF check THEN <<>>
               ELSE IF creating THEN <<Call("post", "tenants", NoInt, new_object)>>
               ELSE IF update
                 THEN <<Call("put", "tenants/id", IntField(id), new_object)>>
               ELSE <<>>
      ts1 == IF check THEN ts
             ELSE IF creating THEN PostTenant(ts, new_object)
             ELSE IF update THEN PutById(ts, IntField(id), new_object)
             ELSE ts
      object == IF ~changed THEN existing
                ELSE IF check THEN Dict(new_object)
                ELSE GetById(ts1, IntField(id))
  IN ExitJson([failed |-> FALSE, object |-> object, changed |-> changed], calls)
       @@ [tenants |-> ts1]

\* lines 290-299: state == 'absent'
TenantAbsent(p, check, ts) ==
  LET existing == TenantExisting("absent", p, "single", ts)
      id == TenantId("absent", p, "single", ts)
      changed == Truthy(existing)
      delete == changed /\ ~check
  IN ExitJson([failed |-> FALSE, object |-> Null, changed |-> changed],
              IF delete THEN <<Call("delete", "tenants/id", IntField(id), NoFields)>>
              ELSE <<>>)
       @@ [tenants |-> IF delete THEN DeleteById(ts, IntField(id)) ELSE ts]

\* lines 305-308: state == 'query'
TenantQuery(p, query_type, ts) ==
  ExitJson([failed |-> FALSE, object |-> TenantExisting("query", p, query_type, ts),
            changed |-> FALSE], <<>>)
    @@ [tenants |-> ts]

\* main() of tetration_tenant.py
TenantMain(state, p, query_type, check, ts) ==
  IF state \in {"present", "absent"} /\ ~TruthyStr(p.name) /\ ~TruthyStr(p.id)
    THEN FailJson("Either name or id is required", <<>>) @@ [tenants |-> ts]
  ELSE IF state = "present" THEN TenantPresent(p, check, ts)
  ELSE IF state = "absent" THEN TenantAbsent(p, check, ts)
  ELSE TenantQuery(p, query_type, ts)

TenantNames == {"Eng", "Default"}

TenantParams ==
  [name : TenantNames \cup {NoStr},
   id : {"676769", NoStr},
   switch_vrfs : {NoList, <<>>, <<"v1", "v2">>, <<"v2", "v1">>, <<"v1", "v2", "v1">>}]

\* query_type is read only by state == 'query'
QueryTypes(state) == IF state = "query" THEN {"single", "all"} ELSE {"single"}

\* one run of tetration_tenant
Tenant(state) ==
  /\ program = "tenant"
  /\ task # NoTask
  /\ \E check \in BOOLEAN, query_type \in QueryTypes(state) :
       LET r == TenantMain(state, task, query_type, check, tenants)
       IN /\ tenants' = r.tenants
          /\ last' = Invocation(state, check, r) @@ [query_type |-> query_type]
  /\ UNCHANGED <<race, program, python, roles, users, nat_configs, intents, scopes,
                 plays, task>>

TenantPresentRun == Tenant("present")

TenantAbsentRun == Tenant("absent")

TenantQueryRun == Tenant("query")

-----------------------------------------------------------------------------
(* tetration_agent_nat_config.py *)

NatIds == {1, 2}

\* lines 148-151: required_if
NatMissingArguments(state, p) ==
  /\ state \in {"present", "query"}
  /\ \/ p.src_subnet = NoStr
     \/ p.src_port_range_start = NoInt
     \/ p.src_port_range_end = NoInt

\* line 208
NatAbsentInvalid(state, p) ==
  /\ state = "absent"
  /\ ~TruthyInt(p.nat_config_id)
  /\ ~(TruthyInt(p.vrf_id) \/ TruthyStr(p.vrf_name))
  /\ ~(TruthyStr(p.src_subnet) /\ TruthyInt(p.src_port_range_end)
        /\ TruthyInt(p.src_port_range_start))

\* lines 237-242: the VRF named vrf_name
NatVrf(p, ts) == GetObject({r \in ts : r.name = p.vrf_name})

\* lines 215-246: vrf_id
NatVrfId(p, ts) ==
  IF TruthyInt(p.nat_config_id) \/ TruthyInt(p.vrf_id) THEN p.vrf_id
  ELSE IF Truthy(NatVrf(p, ts)) THEN NatVrf(p, ts).val.id
  ELSE NoInt

\* lines 215-257: existing_object
NatExisting(p, ncs, ts) ==
  IF TruthyInt(p.nat_config_id) THEN GetById(ncs, p.nat_config_id)
  ELSE GetObject({r \in ncs :
         /\ r.vrf_id = NatVrfId(p, ts)
         /\ r.src_subnet = p.src_subnet
         /\ r.src_port_range_start = p.src_port_range_start
         /\ r.src_port_range_end = p.src_port_range_end})

\* lines 267-272: new_object
NatNewObject(p, ts) ==
  [src_subnet |-> p.src_subnet,
   src_port_range_start |-> p.src_port_range_start,
   src_port_range_end |-> p.src_port_range_end,
   vrf_id |-> NatVrfId(p, ts)]

\* lines 192-197: the result dictionary
NatResult(changed, object) ==
  [changed |-> changed, api_version |-> "v1", tetration |-> "server", object |-> object]

\* lines 265-288: state == 'present'
NatPresent(p, check, ncs, ts, nid) ==
  LET existing == NatExisting(p, ncs, ts)
      creating == ~Truthy(existing)
      new_object == NatNewObject(p, ts)
      post == creating /\ ~check
      ncs1 == IF post THEN PostNatConfig(ncs, nid, new_object) ELSE ncs
      object == IF ~creating THEN existing
                ELSE IF check THEN Dict(new_object)
                ELSE GetById(ncs1, nid)
  IN ExitJson(NatResult(creating, object),
              IF post THEN <<Call("post", "agentnatconfig", NoInt, new_object)>>
              ELSE <<>>)
       @@ [nat_configs |-> ncs1, created |-> post]

\* lines 294-304: state == 'absent'
NatAbsent(p, check, ncs, ts) ==
  LET existing == NatExisting(p, ncs, ts)
      changed == Truthy(existing)
      delete == changed /\ ~check
  IN ExitJson(NatResult(changed, Null),
              IF delete
                THEN <<Call("delete", "agentnatconfig/id", existing.val.id, NoFields)>>
                ELSE <<>>)
       @@ [nat_configs |-> IF delete THEN DeleteById(ncs, existing.val.id) ELSE ncs,
           created |-> FALSE]

\* lines 310-311: state == 'query'
NatQuery(p, ncs, ts) ==
  ExitJson(NatResult(FALSE, NatExisting(p, ncs, ts)), <<>>)
    @@ [nat_configs |-> ncs, created |-> FALSE]

\* main() of tetration_agent_nat_config.py
NatMain(state, p, check, ncs, ts, nid) ==
  IF NatMissingArguments(state, p)
    THEN FailJson("missing required arguments", <<>>)
           @@ [nat_configs |-> ncs, created |-> FALSE]
  ELSE IF NatAbsentInvalid(state, p)
    THEN FailJson("Either a valid nat config id or vrf is required", <<>>)
           @@ [nat_configs |-> ncs, created |-> FALSE]
  ELSE IF ~TruthyInt(p.nat_config_id) /\ ~TruthyInt(p.vrf_id) /\ ~Truthy(NatVrf(p, ts))
    THEN FailJson("A vrf could not be found matching vrf name", <<>>)
           @@ [nat_configs |-> ncs, created |-> FALSE]
  ELSE IF state = "present" THEN NatPresent(p, check, ncs, ts, nid)
  ELSE IF state = "absent" THEN NatAbsent(p, check, ncs, ts)
  ELSE NatQuery(p, ncs, ts)

\* lines 152-157: exactly one of vrf_name, vrf_id and nat_config_id is given
NatTargets ==
  {t \in [vrf_name : {"Default", "Ghost", NoStr},
          vrf_id : {TenantIdStart, 5, NoInt},
          nat_config_id : NatIds \cup {NoInt}] :
     Cardinality({f \in {"vrf_name", "vrf_id", "nat_config_id"} :
                    t[f] # (IF f = "vrf_name" THEN NoStr ELSE NoInt)}) = 1}

NatRanges ==
  {[src_subnet |-> NoStr, src_port_range_start |-> NoInt, src_port_range_end |-> NoInt],
   [src_subnet |-> "10.0.0.0/8", src_port_range_start |-> 1, src_port_range_end |-> 9],
   [src_subnet |-> "10.0.0.0/8", src_port_range_start |-> 1, src_port_range_end |-> 8]}

NatParams == {t @@ k : t \in NatTargets, k \in NatRanges}

\* one run of tetration_agent_nat_config
NatConfig(state) ==
  /\ program = "nat"
  /\ task # NoTask
  /\ \E check \in BOOLEAN, nid \in FreshIds(NatIds, nat_configs) :
       LET r == NatMain(state, task, check, nat_configs, tenants, nid)
       IN /\ r.created => nid # NoInt
          /\ nat_configs' = r.nat_configs
          /\ last' = Invocation(state, check, r)
  /\ UNCHANGED <<race, program, python, tenants, roles, users, intents, scopes, plays, task>>

NatPresentRun == NatConfig("present")

NatAbsentRun == NatConfig("absent")

NatQueryRun == NatConfig("query")

-----------------------------------------------------------------------------
(* tetration_interface_intent.py *)

\* vrf_id is declared type='str' (line 134); the id of a tenant is an integer.
\* The two never compare equal in Python, so a VRF id carries its type.
MaxIntents == 2

InventoryFilters ==
  {[id |-> "f1", name |-> "web", app_scope_id |-> "sD"],
   [id |-> "f2", name |-> "db", app_scope_id |-> "sD"]}

Crash(error) ==
  [exit |-> "exception", result |-> [failed |-> TRUE, msg |-> error], calls |-> <<>>]

\* lines 185-190: vrf_id
IntentVrfId(p, ts) ==
  IF TruthyStr(p.vrf_id) THEN PyStr(p.vrf_id)
  ELSE LET vrf_object == GetObject({r \in ts : r.name = p.vrf_name})
       IN IF vrf_object = Null THEN PyNone ELSE PyInt(vrf_object.val.id)

\* lines 195-198: the scope named 'Default'
IntentScope(sc) == GetObject({r \in sc : r.name = "Default"})

\* lines 194-207: inventory_filter_id
IntentFilterId(p, sc) ==
  IF TruthyStr(p.inventory_filter_id) THEN p.inventory_filter_id
  ELSE IF ~Truthy(IntentScope(sc)) THEN NoStr
  ELSE LET filter_object ==
             GetObject({r \in InventoryFilters :
               r.name = p.inventory_filter_name
               /\ r.app_scope_id = IntentScope(sc).val.id})
       IN IF filter_object = Null THEN NoStr ELSE filter_object.val.id

\* lines 216-221: target_object_index, counted from 1; 0 stands for None
IntentIndex(its, vrf_id) ==
  IF \E i \in DOMAIN its : its[i].vrf_id = vrf_id
    THEN CHOOSE i \in DOMAIN its :
           /\ its[i].vrf_id = vrf_id
           /\ \A j \in 1..(i - 1) : its[j].vrf_id # vrf_id
    ELSE 0

\* lines 219-220: result['changed'] after the loop
IntentFilterDiffers(its, idx, filter_id) ==
  idx # 0 /\ its[idx].inventory_filter_id # filter_id

\* lines 235, 275 and 299: target_object_index >= 0.  None >= 0 is False under
\* Python 2 and a TypeError under Python 3.
IndexCompareRaises(py, idx) == py = 3 /\ idx = 0

RemoveAt(seq, idx) == [i \in 1..(Len(seq) - 1) |-> IF i < idx THEN seq[i] ELSE seq[i + 1]]

\* lines 252-261: the last entry of the list is the one annotated
IntentAnnotate(list, filter_object, vrf_name) ==
  [list EXCEPT ![Len(list)] =
     @ @@ [inventory_filter |-> filter_object, vrf_name |-> vrf_name]]

\* lines 229-268: state == 'present'
IntentPresent(p, check, py, its, ts, sc) ==
  LET vrf_id == IntentVrfId(p, ts)
      filter_id == IntentFilterId(p, sc)
      idx == IntentIndex(its, vrf_id)
      differs == IntentFilterDiffers(its, idx, filter_id)
      new_object == [vrf_id |-> vrf_id, inventory_filter_id |-> filter_id]
      list == IF differs THEN [its EXCEPT ![idx] = new_object]
              ELSE Append(its, new_object)
      filter_object == GetObject({r \in InventoryFilters : r.id = filter_id})
      vrf_object == GetObject({r \in ts : PyInt(r.id) = vrf_id})
  IN IF IndexCompareRaises(py, idx)
       THEN Crash("TypeError") @@ [intents |-> its]
     ELSE IF idx # 0 /\ ~differs
       THEN ExitJson([changed |-> FALSE, object |-> List(its)], <<>>)
              @@ [intents |-> its]
     ELSE IF ~check
       THEN LET payload == [intents |-> list]
                its1 == PostIntents(its, payload)
            IN ExitJson([changed |-> TRUE, object |-> GetIntents(its1)],
                        <<Call("post", "interface_intents", NoInt, payload)>>)
                 @@ [intents |-> its1]
     ELSE IF vrf_object = Null
       THEN Crash("TypeError") @@ [intents |-> its]
     ELSE ExitJson([changed |-> TRUE,
                    object |-> List(IntentAnnotate(list, filter_object,
                                                   vrf_object.val.name))], <<>>)
            @@ [intents |-> its]

IntentAbsentFailingLate(p, check, py, its, ts, sc) ==
  LET vrf_id == IntentVrfId(p, ts)
      filter_id == IntentFilterId(p, sc)
      idx == IntentIndex(its, vrf_id)
      differs == IntentFilterDiffers(its, idx, filter_id)
      list == RemoveAt(its, idx)
      payload == [intents |-> list]
  IN IF IndexCompareRaises(py, idx)
       THEN Crash("TypeError") @@ [intents |-> its]
     ELSE IF idx # 0 /\ ~differs
       THEN ExitJson([changed |-> TRUE, object |-> List(list)],
                     IF check THEN <<>>
                     ELSE <<Call("post", "interface_intents", NoInt, payload)>>)
              @@ [intents |-> IF check THEN its ELSE PostIntents(its, payload)]
     ELSE IF differs
       THEN FailJson("Inventory filter id does not match current filter",
                     <<Call("post", "interface_intents", NoInt, payload)>>)
              @@ [intents |-> PostIntents(its, payload)]
     ELSE ExitJson([changed |-> FALSE, object |-> List(its)], <<>>)
            @@ [intents |-> its]

\* lines 274-288: state == 'absent'
IntentAbsent(p, check, py, its, ts, sc) ==
  LET vrf_id == IntentVrfId(p, ts)
      filter_id == IntentFilterId(p, sc)
      idx == IntentIndex(its, vrf_id)
      differs == IntentFilterDiffers(its, idx, filter_id)
  IN IF IndexCompareRaises(py, idx)
       THEN Crash("TypeError") @@ [intents |-> its]
     ELSE IF idx # 0 /\ ~differs
       THEN LET list == RemoveAt(its, idx)
                payload == [intents |-> list]
            IN ExitJson([changed |-> TRUE, object |-> List(list)],
                        IF check THEN <<>>
                        ELSE <<Call("post", "interface_intents", NoInt, payload)>>)
                 @@ [intents |-> IF check THEN its ELSE PostIntents(its, payload)]
     ELSE IF differs
       THEN FailJson("Inventory filter id does not match current filter", <<>>)
              @@ [intents |-> its]
     ELSE ExitJson([changed |-> FALSE, object |-> List(its)], <<>>)
            @@ [intents |-> its]

\* lines 295-301: state == 'query'
IntentQuery(p, query_type, py, its, ts, sc) ==
  LET vrf_id == IntentVrfId(p, ts)
      filter_id == IntentFilterId(p, sc)
      idx == IntentIndex(its, vrf_id)
      changed == IntentFilterDiffers(its, idx, filter_id)
  IN IF query_type = "single" /\ IndexCompareRaises(py, idx)
       THEN Crash("TypeError") @@ [intents |-> its]
     ELSE ExitJson([changed |-> changed,
                    object |-> IF query_type = "all" THEN List(its)
                               ELSE IF idx # 0 THEN Rec(its[idx])
                               ELSE Null], <<>>)
            @@ [intents |-> its]

\* main() of tetration_interface_intent.py
IntentMain(state, p, query_type, check, py, its, ts, sc) ==
  LET required == state # "query" \/ query_type # "all"
  IN IF required /\ ~(TruthyStr(p.vrf_name) \/ TruthyStr(p.vrf_id))
       THEN FailJson("One of the following parameters is required: vrf_name or vrf_id",
                     <<>>) @@ [intents |-> its]
     ELSE IF required
             /\ ~(TruthyStr(p.inventory_filter_name) \/ TruthyStr(p.inventory_filter_id))
       THEN FailJson("One of the following parameters is required: inventory_filter", <<>>)
              @@ [intents |-> its]
     ELSE IF IntentVrfId(p, ts) = PyNone /\ state # "query"
       THEN FailJson("A VRF could not be found matching name", <<>>)
              @@ [intents |-> its]
     ELSE IF ~TruthyStr(p.inventory_filter_id) /\ ~Truthy(IntentScope(sc))
       THEN FailJson("An app scope cannot be found with name: Default", <<>>)
              @@ [intents |-> its]
     ELSE IF IntentFilterId(p, sc) = NoStr /\ state # "query"
       THEN FailJson("An inventory filter could not be found matching name", <<>>)
              @@ [intents |-> its]
     ELSE IF state = "present" THEN IntentPresent(p, check, py, its, ts, sc)
     ELSE IF state = "absent" THEN IntentAbsent(p, check, py, its, ts, sc)
     ELSE IntentQuery(p, query_type, py, its, ts, sc)

\* lines 151-154: mutually_exclusive
IntentParams ==
  {p \in [vrf_name : {"Default", "Ghost", NoStr},
          vrf_id : {"676769", "999", NoStr},
          inventory_filter_name : {"web", "ghost", NoStr},
          inventory_filter_id : {"f1", "f2", NoStr}] :
     /\ p.vrf_name = NoStr \/ p.vrf_id = NoStr
     /\ p.inventory_filter_name = NoStr \/ p.inventory_filter_id = NoStr}

\* one run of tetration_interface_intent
Intent(state) ==
  /\ program = "intent"
  /\ task # NoTask
  /\ \E check \in BOOLEAN, query_type \in QueryTypes(state) :
       LET r == IntentMain(state, task, query_type, check, python, intents, tenants,
                           scopes)
       IN /\ Len(r.intents) <= MaxIntents
          /\ intents' = r.intents
          /\ last' = Invocation(state, check, r) @@ [query_type |-> query_type]
  /\ UNCHANGED <<race, program, python, tenants, roles, users, nat_configs, scopes, plays,
                 task>>

IntentPresentRun == Intent("present")

IntentAbsentRun == Intent("absent")

IntentQueryRun == Intent("query")

-----------------------------------------------------------------------------
(* Plays *)

Params ==
  CASE program = "role" -> RoleParams
    [] program = "user" -> UserParams
    [] program = "user_role" -> UserRoleParams
    [] program = "tenant" -> TenantParams
    [] program = "nat" -> NatParams
    [] program = "intent" -> IntentParams
    [] program = "user_sevt" -> SevtParams

\* a play starts: the parameters of its task are chosen
StartPlay ==
  /\ task = NoTask
  /\ plays < MaxPlays
  /\ plays' = plays + 1
  /\ task' \in Params
  /\ UNCHANGED <<race, program, python, remote, last>>

\* a play ends: the registered result is forgotten
EndPlay ==
  /\ task # NoTask
  /\ task' = NoTask
  /\ last' = NoInvocation
  /\ UNCHANGED <<race, program, python, remote, plays>>

\* the app scopes of the platform: a root scope and a child scope
AppScopes == {[id |-> "sD", name |-> "Default"], [id |-> "sDC", name |-> "Default:DC"]}

Programs == {"role", "user", "user_role", "tenant", "nat", "intent",
             "user_sevt"}

\* the VRF the NAT and interface modules find: they create none
Vrfs == {[id |-> TenantIdStart, name |-> "Default", switch_vrfs |-> <<>>]}

\* the roles and the accounts tetration_user_role finds: it creates neither
ListedRoles ==
  {[id |-> i, name |-> IF i = 1 THEN "admin" ELSE "ops", description |-> NoStr,
    app_scope_id |-> "", capabilities |-> {}] : i \in {1, 2}}

Accounts(role_ids) ==
  {[id |-> 1, email |-> "bob@corp", first_name |-> "Bob", last_name |-> "Smith",
    app_scope_id |-> "", disabled_at |-> NoInt, role_ids |-> role_ids],
   [id |-> 2, email |-> "amy@corp", first_name |-> "Amy", last_name |-> "Jones",
    app_scope_id |-> "", disabled_at |-> Now, role_ids |-> <<>>]}

\* no invocations of tetration_interface_intent are running side by side
NoRace == [none |-> TRUE]

Init ==
  /\ race = NoRace
  /\ program \in Programs
  /\ python \in IF program = "intent" THEN {2, 3} ELSE {2}
  /\ tenants = IF program \in {"nat", "intent"} THEN Vrfs ELSE {}
  /\ roles = IF program = "user_role" THEN ListedRoles ELSE {}
  /\ users \in IF program = "user_role"
                THEN {Accounts(role_ids) : role_ids \in {<<>>, <<3>>}}
                ELSE {{}}
  /\ nat_configs = {}
  /\ intents = <<>>
  /\ scopes = AppScopes
  /\ plays = 0
  /\ task = NoTask
  /\ last = NoInvocation

Next ==
  \/ StartPlay
  \/ EndPlay
  \/ RolePresentRun
  \/ RoleAbsentRun
  \/ RoleQueryRun
  \/ UserPresentRun
  \/ UserAbsentRun
  \/ UserQueryRun
  \/ UserRolePresentRun
  \/ UserRoleAbsentRun
  \/ TenantPresentRun
  \/ TenantAbsentRun
  \/ TenantQueryRun
  \/ NatPresentRun
  \/ NatAbsentRun
  \/ NatQueryRun
  \/ IntentPresentRun
  \/ IntentAbsentRun
  \/ IntentQueryRun
  \/ SevtPresentRun
  \/ SevtAbsentRun
  \/ SevtQueryRun

Spec == Init /\ [][Next]_vars

-----------------------------------------------------------------------------
(* The invocation main() makes from the current state *)

AnyId(universe, S) == CHOOSE n \in FreshIds(universe, S) : TRUE

Run(state, query_type, check) ==
  CASE program = "role" ->
         RoleMain(state, task, check, roles, AnyId(RoleIds, roles))
    [] program = "user" ->
         UserMain(state, task, check, users, scopes, AnyId(UserIds, users))
    [] program = "user_sevt" ->
         SevtMain(state, task, check, users, scopes, AnyId(UserIds, users))
    [] program = "user_role" ->
         UserRoleMain(state, task, check, users, roles)
    [] program = "tenant" ->
         TenantMain(state, task, query_type, check, tenants)
    [] program = "nat" ->
         NatMain(state, task, check, nat_configs, tenants, AnyId(NatIds, nat_configs))
    [] program = "intent" ->
         IntentMain(state, task, query_type, check, python, intents, tenants, scopes)

ProgramStates == IF program = "user_role" THEN {"present", "absent"} ELSE States

Ok(inv) == inv.exit = "exit_json"

NoMutatingCalls(inv) == \A i \in DOMAIN inv.calls : inv.calls[i].method \notin Mutating

\* the invocation created the resource: it POSTed to a collection
Created(inv) ==
  \E i \in DOMAIN inv.calls : inv.calls[i].method = "post" /\ inv.calls[i].id = NoInt

SameObject(a, b) == a.kind = b.kind /\ a = b

-----------------------------------------------------------------------------
(* Properties *)

\* C1 (idempotence): after a non-check present that created the resource and
\* reported changed=true, a second non-check present with the same parameters
\* reports changed=false and returns the same record.
C1_Idempotence ==
  (/\ program \in {"tenant", "role", "user", "nat", "intent"}
   /\ last.state = "present" /\ ~last.check_mode /\ Ok(last) /\ Created(last))
  => LET again == Run("present", "single", FALSE)
     IN /\ last.result.changed
        /\ Ok(again)
        /\ ~again.result.changed
        /\ SameObject(again.result.object, last.result.object)

\* C2 (check-mode non-mutation): an invocation in check mode issues no POST, PUT
\* or DELETE and leaves the remote collections as they were.
C2_CheckModeNonMutation ==
  [][last'.check_mode => NoMutatingCalls(last') /\ remote' = remote]_vars

\* C3 (absent-then-absent): right after a non-check absent, a non-check absent
\* with the same parameters reports changed=false and issues no mutating call.
C3_AbsentThenAbsent ==
  (last.state = "absent" /\ ~last.check_mode /\ Ok(last))
  => LET again == Run("absent", "single", FALSE)
     IN Ok(again) /\ ~again.result.changed /\ NoMutatingCalls(again)

\* the fields of the task that the record found by a query carries
RoundTripFields ==
  CASE program = "tenant" -> {"name"}
    [] program = "role" -> {"name", "description"}
    [] program \in {"user", "user_sevt"} ->
         {"email", "first_name", "last_name", "app_scope_id"}
    [] program = "nat" ->
         {"src_subnet", "src_port_range_start", "src_port_range_end"}
    [] program = "intent" -> {"inventory_filter_id"}
    [] program = "user_role" -> {}

Supplied(f) ==
  IF f \in {"src_port_range_start", "src_port_range_end"}
    THEN task[f] # NoInt ELSE task[f] # NoStr

\* C4 (round trip): right after a successful non-check present, a query with
\* the same parameters returns a record, and every field the task supplied has
\* the supplied value in it.
C4_RoundTrip ==
  (last.state = "present" /\ ~last.check_mode /\ Ok(last) /\ program # "user_role")
  => LET found == Run("query", "single", FALSE)
     IN /\ Ok(found)
        /\ found.result.object.kind = "record"
        /\ \A f \in RoundTripFields :
             Supplied(f) => found.result.object.val[f] = task[f]

\* C5 (check-mode parity): from any state and for any parameters, the check-mode
\* invocation exits as the non-check invocation does and reports the same
\* changed flag.
C5_CheckModeParity ==
  task # NoTask
  => \A state \in ProgramStates, query_type \in {"single", "all"} :
       LET dry == Run(state, query_type, TRUE)
           real == Run(state, query_type, FALSE)
       IN /\ dry.exit = real.exit
          /\ Ok(dry) => dry.result.changed = real.result.changed

\* C6: in check mode, once a present has reported changed=true, the next
\* check-mode present with the same parameters reports changed=true too.
C6_CheckModeStable ==
  (last.state = "present" /\ last.check_mode /\ Ok(last) /\ last.result.changed)
  => LET again == Run("present", "single", TRUE)
     IN Ok(again) /\ again.result.changed

\* C7 (result envelope): the result of every exit that is not a failure holds
\* the keys changed, failed and object.
C7_ResultEnvelope ==
  Ok(last) => {"changed", "failed", "object"} \subseteq DOMAIN last.result

\* C8 (query is read-only): an invocation with state=query issues no POST, PUT
\* or DELETE and leaves the remote collections as they were.
C8_QueryReadOnly ==
  [][last'.state = "query" => NoMutatingCalls(last') /\ remote' = remote]_vars

C8_Witness ==
  /\ last.state = "query" /\ Ok(last)
  /\ last.result.object.kind = "record"
  /\ last.calls = <<>>

\* the capability the task asks for, as CAPABILITIES maps it
AskedCapability ==
  [ability |-> CAPABILITIES(task.capability_ability),
   app_scope_id |-> task.capability_appscope]

\* the role the task names has the capability the task asks for
CapabilityHeld ==
  /\ program = "role"
  /\ task # NoTask
  /\ task.capability_ability # NoStr
  /\ RoleExisting(task, roles).kind = "record"
  /\ AskedCapability \in RoleExisting(task, roles).val.capabilities

\* C9 (no re-add): when the role already has the (ability, scope) pair asked
\* for, present issues no POST to the capabilities of the role, and changed is
\* true only if the name or the description differs.
C9_CapabilityNoReAdd ==
  CapabilityHeld
  => \A check \in BOOLEAN :
       LET r == Run("present", "single", check)
       IN /\ Ok(r)
          /\ \A i \in DOMAIN r.calls : r.calls[i].target # "roles/id/capabilities"
          /\ r.result.changed = RoleDiffers(task, RoleExisting(task, roles).val)

C9_Witness ==
  /\ CapabilityHeld
  /\ last.state = "present" /\ ~last.check_mode /\ Ok(last)
  /\ ~last.result.changed
  /\ last.calls = <<>>

\* C10 (append-only): a present or a query of tetration_role never takes a
\* capability away from a role that it leaves in place.
C10_CapabilityAppendOnly ==
  [][last'.state \in {"present", "query"}
     => \A r \in roles : \A r2 \in roles' :
          r2.id = r.id => r.capabilities \subseteq r2.capabilities]_vars

C10_Witness ==
  /\ last.state = "present" /\ Ok(last)
  /\ \E i \in DOMAIN last.calls :
       /\ last.calls[i].method = "put"
       /\ \E r \in roles : r.id = last.calls[i].id /\ r.capabilities # {}

\* the tenant the task names, as the state read of tetration_tenant finds it
TenantFound ==
  IF program = "tenant" /\ task # NoTask
    THEN TenantExisting("present", task, "single", tenants)
    ELSE Null

HasPut(inv) == \E i \in DOMAIN inv.calls : inv.calls[i].method = "put"

\* C11 (switch_vrfs compared as a set): present on an existing tenant whose
\* name matches reports changed=true and issues a PUT exactly when the set of
\* requested switch_vrfs differs from the set of existing ones; a reordering
\* or a duplication reports changed=false and issues no PUT.
C11_SwitchVrfsAsSet ==
  (/\ TenantFound.kind = "record"
   /\ task.name # NoStr /\ TenantFound.val.name = task.name
   /\ task.switch_vrfs # NoList)
  => LET r == Run("present", "single", FALSE)
         differ == {TenantFound.val.switch_vrfs[i] :
                      i \in DOMAIN TenantFound.val.switch_vrfs}
                   # {task.switch_vrfs[i] : i \in DOMAIN task.switch_vrfs}
     IN /\ Ok(r)
        /\ r.result.changed = differ
        /\ HasPut(r) = differ
        /\ ~differ => r.calls = <<>>

C11_Witness ==
  /\ TenantFound.kind = "record"
  /\ task.name # NoStr /\ TenantFound.val.name = task.name
  /\ task.switch_vrfs # NoList
  /\ TenantFound.val.switch_vrfs # task.switch_vrfs
  /\ Len(TenantFound.val.switch_vrfs) = 2
  /\ last.state = "present" /\ ~last.check_mode /\ Ok(last)
  /\ ~last.result.changed /\ last.calls = <<>>


\* the enabled account the task names, as tetration_user_role finds it
UserRoleFound ==
  IF program = "user_role" /\ task # NoTask THEN UserRoleExisting(task, users) ELSE Null

\* the role list of account id in a collection of users
RoleIdsOf(us, id) == (CHOOSE r \in us : r.id = id).role_ids

Without(L, R) == SelectSeq(L, LAMBDA x : ~InSeq(x, R))

ListedOnly(R) == SelectSeq(R, LAMBDA x : x \in Ids(roles))

C13_PresentIsUnion ==
  UserRoleFound.kind = "record"
  => LET r == Run("present", "single", FALSE)
         u == UserRoleFound.val
         missing == Range(task.role_ids) \ Range(u.role_ids)
     IN /\ Ok(r)
        /\ \A i \in DOMAIN r.calls :
             /\ r.calls[i].method = "put" /\ r.calls[i].target = "users/id/add_role"
             /\ r.calls[i].id = u.id
             /\ r.calls[i].payload.role_id \in missing
        /\ {r.calls[i].payload.role_id : i \in DOMAIN r.calls} = missing
        /\ Range(RoleIdsOf(r.users, u.id)) = Range(u.role_ids) \cup Range(task.role_ids)
        /\ r.result.changed = (missing # {})

\* present([2, 3]) on a user holding [3]: one add_role, for role 2
C13_Witness ==
  /\ UserRoleFound.kind = "record"
  /\ last.state = "present" /\ ~last.check_mode /\ Ok(last)
  /\ task.role_ids = <<2, 3>>
  /\ Len(last.calls) = 1 /\ last.calls[1].payload.role_id = 2
  /\ last.result.changed
  /\ UserRoleFound.val.role_ids = <<3, 2>>

\* C14 (stale-role guard): under present and under absent, add_role or
\* remove_role is issued for a role id only if the roles endpoint lists it.
C14_StaleRoleGuard ==
  UserRoleFound.kind = "record"
  => \A state \in {"present", "absent"} :
       LET r == Run(state, "single", FALSE)
       IN \A i \in DOMAIN r.calls :
            r.calls[i].method \in Mutating => r.calls[i].payload.role_id \in Ids(roles)

\* the task of tetration_agent_nat_config names a VRF that does not exist
NatUnresolved ==
  /\ program = "nat" /\ task # NoTask
  /\ ~TruthyInt(task.nat_config_id) /\ ~TruthyInt(task.vrf_id)
  /\ TruthyStr(task.vrf_name) /\ ~Truthy(NatVrf(task, tenants))
  /\ ~NatMissingArguments("query", task)

\* the task of tetration_interface_intent names a VRF or an inventory filter
\* that does not resolve
IntentUnresolved ==
  /\ program = "intent" /\ task # NoTask
  /\ TruthyStr(task.vrf_name) \/ TruthyStr(task.vrf_id)
  /\ TruthyStr(task.inventory_filter_name) \/ TruthyStr(task.inventory_filter_id)
  /\ \/ IntentVrfId(task, tenants) = PyNone
     \/ IntentFilterId(task, scopes) = NoStr

\* C15 (resolution failure policy): when a name of the task does not resolve,
\* state=query finishes without failure and returns a null object, and
\* state=present and state=absent fail.
C15_ResolutionFailurePolicy ==
  (NatUnresolved \/ IntentUnresolved)
  => /\ \A check \in BOOLEAN :
          LET q == Run("query", "single", check)
          IN Ok(q) /\ q.result.object = Null
     /\ \A state \in {"present", "absent"}, check \in BOOLEAN :
          Run(state, "single", check).exit = "fail_json"

\* C16 (ambiguous absent): an absent of tetration_agent_nat_config that gives
\* neither a nat_config_id nor the complete key (a VRF with src_subnet and both
\* port bounds) fails with the 'required for state absent' error and issues no
\* DELETE.
C16_AmbiguousAbsent ==
  (/\ program = "nat" /\ task # NoTask
   /\ task.nat_config_id = NoInt
   /\ \/ task.src_subnet = NoStr
      \/ task.src_port_range_start = NoInt
      \/ task.src_port_range_end = NoInt)
  => \A check \in BOOLEAN :
       LET r == Run("absent", "single", check)
       IN /\ r.exit = "fail_json"
          /\ r.result.msg = "Either a valid nat config id or vrf is required"
          /\ r.calls = <<>>

\* the state read of the task's module finds a record matching the task
\* (for the user modules an enabled account: a disabled one is already absent)
MatchFound(state) ==
  /\ task # NoTask
  /\ CASE program = "role" -> RoleExisting(task, roles).kind = "record"
       [] program = "user" ->
            LET e == UserExisting(task, users) IN Truthy(e) /\ ~UserDisabled(e)
       [] program = "user_sevt" ->
            LET e == SevtExisting(task, users) IN Truthy(e) /\ ~UserDisabled(e)
       [] program = "tenant" ->
            TenantExisting(state, task, "single", tenants).kind = "record"
       [] program = "nat" ->
            /\ ~NatMissingArguments(state, task) /\ ~NatAbsentInvalid(state, task)
            /\ \/ TruthyInt(task.nat_config_id) \/ TruthyInt(task.vrf_id)
               \/ Truthy(NatVrf(task, tenants))
            /\ NatExisting(task, nat_configs, tenants).kind = "record"
       [] program = "intent" ->
            /\ TruthyStr(task.vrf_name) \/ TruthyStr(task.vrf_id)
            /\ TruthyStr(task.inventory_filter_name) \/ TruthyStr(task.inventory_filter_id)
            /\ IntentFilterId(task, scopes) # NoStr
            /\ IntentIndex(intents, IntentVrfId(task, tenants)) # 0
       [] OTHER -> FALSE

\* the invocation asked the platform to remove the record
Deletes(inv) ==
  \E i \in DOMAIN inv.calls :
    IF program = "intent"
      THEN inv.calls[i].method = "post"
           /\ Len(inv.calls[i].payload.intents) = Len(intents) - 1
      ELSE inv.calls[i].method = "delete"

\* C17 (absent always deletes a match): in every reconciler a non-check absent
\* whose state read finds a matching record issues the delete for it and
\* reports changed=true, whatever the other fields of the record are.
C17_AbsentDeletesMatch ==
  MatchFound("absent")
  => LET r == Run("absent", "single", FALSE)
     IN Ok(r) /\ r.result.changed /\ Deletes(r)

\* the record MatchFound speaks of
Matched(state) ==
  CASE program = "role" -> RoleExisting(task, roles).val
    [] program = "user" -> UserExisting(task, users).val
    [] program = "user_sevt" -> SevtExisting(task, users).val
    [] program = "tenant" -> TenantExisting(state, task, "single", tenants).val
    [] program = "nat" -> NatExisting(task, nat_configs, tenants).val
    [] program = "intent" -> intents[IntentIndex(intents, IntentVrfId(task, tenants))]

\* a field the task supplies differs from the matched record
SuppliedDiffers(state) ==
  LET m == Matched(state)
      differs(f, none) == task[f] # none /\ m[f] # task[f]
  IN CASE program = "role" ->
            \/ differs("name", NoStr) \/ differs("description", NoStr)
            \/ task.capability_ability # NoStr /\ AskedCapability \notin m.capabilities
       [] program = "user" ->
            \/ differs("first_name", NoStr) \/ differs("last_name", NoStr)
            \/ differs("app_scope_id", NoStr)
            \/ /\ TruthyStr(task.app_scope_name)
               /\ m.app_scope_id # UserAppScope(task, scopes).val.id
       [] program = "user_sevt" ->
            \/ differs("email", NoStr) \/ differs("first_name", NoStr)
            \/ differs("last_name", NoStr) \/ differs("app_scope_id", NoStr)
       [] program = "tenant" ->
            \/ differs("name", NoStr)
            \/ /\ task.switch_vrfs # NoList
               /\ Range(m.switch_vrfs) # Range(task.switch_vrfs)
       [] program = "nat" ->
            \/ differs("src_subnet", NoStr)
            \/ differs("src_port_range_start", NoInt)
            \/ differs("src_port_range_end", NoInt)
       [] program = "intent" -> m.inventory_filter_id # IntentFilterId(task, scopes)

\* a compared field differs: switch_vrfs of a tenant is compared whether the
\* task supplies it or not, an omitted one standing for the empty list
ComparedDiffers ==
  IF program = "tenant"
    THEN \/ task.name # NoStr /\ Matched("present").name # task.name
         \/ Range(Matched("present").switch_vrfs) # Range(TenantSwitchVrfs(task))
    ELSE SuppliedDiffers("present")

\* C18 (present updates on diff): in every reconciler a non-check present whose
\* state read finds a matching record issues an update and reports changed=true
\* when a supplied field differs from the record, and issues no mutating call
\* and reports changed=false when none differs (switch_vrfs of a tenant counts
\* as supplied with its default, the empty list, when the task leaves it out).
C18_PresentUpdatesOnDiff ==
  (/\ MatchFound("present")
   /\ program = "user" => ~UserScopeError(task, scopes))
  => LET r == Run("present", "single", FALSE)
     IN /\ Ok(r)
        /\ ComparedDiffers => r.result.changed /\ ~NoMutatingCalls(r)
        /\ ~ComparedDiffers => ~r.result.changed /\ NoMutatingCalls(r)

\* the fields C19 names, per module
PartialFields ==
  CASE program = "role" -> {"name", "description"}
    [] program = "user" -> {"first_name", "last_name", "app_scope_id"}
    [] program = "tenant" -> {"name", "switch_vrfs"}
    [] OTHER -> {}

\* the task does not supply field f
NotSupplied(f) ==
  CASE f = "switch_vrfs" -> task.switch_vrfs = NoList
    [] f = "app_scope_id" -> task.app_scope_id = NoStr /\ task.app_scope_name = NoStr
    [] OTHER -> task[f] = NoStr

\* C19 (partial desired spec): in a present on an existing record a field the
\* task does not supply is never compared: it is in no update the module sends,
\* and changed=true is reported only when a supplied field differs.  The fields
\* are name and description of a role, first_name, last_name and app_scope_id
\* of a user, name and switch_vrfs of a tenant.
C19_PartialDesiredSpec ==
  (/\ MatchFound("present")
   /\ program = "user" => ~UserScopeError(task, scopes))
  => LET r == Run("present", "single", FALSE)
     IN \A f \in PartialFields :
          NotSupplied(f) =>
            /\ Ok(r)
            /\ r.result.changed => SuppliedDiffers("present")
            /\ \A i \in DOMAIN r.calls :
                 r.calls[i].method = "put" => f \notin DOMAIN r.calls[i].payload

\* the fields of C19 without switch_vrfs of a tenant
OptionalFields == PartialFields \ {"switch_vrfs"}

\* C19 amended: in a present on an existing record, name and description of a
\* role, first_name, last_name and app_scope_id of a user and name of a tenant
\* are not compared when the task does not supply them: such a field is in no
\* update the module sends and changed=true is reported only when a compared
\* field differs.  switch_vrfs of a tenant is not such a field: when it is not
\* supplied it defaults to the empty list, which is compared and sent.
C19_OptionalFieldsNotCompared ==
  (/\ MatchFound("present")
   /\ program = "user" => ~UserScopeError(task, scopes))
  => LET r == Run("present", "single", FALSE)
     IN \A f \in OptionalFields :
          NotSupplied(f) =>
            /\ Ok(r)
            /\ r.result.changed => ComparedDiffers
            /\ \A i \in DOMAIN r.calls :
                 r.calls[i].method = "put" => f \notin DOMAIN r.calls[i].payload

\* present with the email alone on the enabled user Bob Smith changed nothing
C19_Witness ==
  /\ program = "user" /\ MatchFound("present")
  /\ NotSupplied("first_name") /\ NotSupplied("last_name")
  /\ NotSupplied("app_scope_id")
  /\ Matched("present").first_name = "Bob" /\ Matched("present").last_name = "Smith"
  /\ last.state = "present" /\ ~last.check_mode /\ Ok(last)
  /\ ~last.result.changed /\ last.calls = <<>>

\* C20 (omitted switch_vrfs empties the tenant): a non-check present without
\* switch_vrfs on an existing tenant whose switch_vrfs list is not empty reports
\* changed=true and issues a PUT whose payload sets switch_vrfs to the empty
\* list, after which the tenant has no switch VRFs.
C20_OmittedSwitchVrfsEmpties ==
  (/\ TenantFound.kind = "record"
   /\ task.switch_vrfs = NoList
   /\ TenantFound.val.switch_vrfs # <<>>)
  => LET r == Run("present", "single", FALSE)
         id == TenantFound.val.id
     IN /\ Ok(r) /\ r.result.changed
        /\ \E i \in DOMAIN r.calls :
             /\ r.calls[i].method = "put" /\ r.calls[i].id = id
             /\ "switch_vrfs" \in DOMAIN r.calls[i].payload
             /\ r.calls[i].payload.switch_vrfs = <<>>
        /\ \A t \in r.tenants : t.id = id => t.switch_vrfs = <<>>

\* a present giving only the id of a tenant has sent a PUT: the tenant had switch
\* VRFs, and has none now
C20_Witness ==
  /\ TenantFound.kind = "record"
  /\ task.switch_vrfs = NoList /\ task.name = NoStr
  /\ TenantFound.val.switch_vrfs = <<>>
  /\ last.state = "present" /\ ~last.check_mode /\ Ok(last) /\ last.result.changed
  /\ \E i \in DOMAIN last.calls :
       /\ last.calls[i].method = "put"
       /\ last.calls[i].payload.switch_vrfs = <<>>
  /\ last.result.object.kind = "record"
  /\ last.result.object.val.switch_vrfs = <<>>

\* the account tetration_user finds for the email of the task
UserFound ==
  IF program = "user" /\ task # NoTask THEN UserExisting(task, users) ELSE Null

\* C21 (user soft delete): a non-check absent of tetration_user on an enabled
\* user issues the DELETE and leaves the record in place with a disabled_at;
\* an absent on a user that is already disabled reports changed=false, issues
\* no mutating call and returns the existing disabled record.
C21_UserSoftDelete ==
  UserFound.kind = "record"
  => LET u == UserFound.val
         r == Run("absent", "single", FALSE)
     IN IF u.disabled_at = NoInt
          THEN /\ Ok(r) /\ r.result.changed
               /\ r.calls = <<Call("delete", "users/id", u.id, NoFields)>>
               /\ \E v \in r.users : v.id = u.id /\ v.disabled_at # NoInt
               /\ Cardinality(r.users) = Cardinality(users)
          ELSE \A check \in BOOLEAN :
                 LET q == Run("absent", "single", check)
                 IN /\ Ok(q) /\ ~q.result.changed
                    /\ NoMutatingCalls(q) /\ q.users = users
                    /\ q.result.object = Rec(u)

\* an absent has just disabled the user of the task
C21_Witness ==
  /\ UserFound.kind = "record"
  /\ UserFound.val.disabled_at # NoInt
  /\ last.state = "absent" /\ ~last.check_mode /\ Ok(last) /\ last.result.changed
  /\ \E i \in DOMAIN last.calls : last.calls[i].method = "delete"
  /\ last.result.object = UserFound

\* the invocation ended in a module failure
Failed(inv) == inv.exit \in {"fail_json", "exception"}

\* C22 (failed invocations leave the remote state unchanged): an invocation
\* that ends in a module failure has issued no POST, PUT or DELETE, and the
\* remote state after it is the remote state before it.
C22_FailureLeavesRemote ==
  [][Failed(last') => NoMutatingCalls(last') /\ remote' = remote]_vars

\* an absent of tetration_interface_intent has just failed on an intent whose
\* inventory filter is not the requested one
C22_Witness ==
  /\ program = "intent" /\ Failed(last) /\ last.state = "absent"
  /\ ~last.check_mode
  /\ last.result.msg = "Inventory filter id does not match current filter"
  /\ intents # <<>>

\* the disabled account a present of tetration_user or tetration_user_sevt finds
DisabledFound ==
  IF task = NoTask THEN Null
  ELSE IF program = "user" /\ ~UserScopeError(task, scopes)
            /\ UserDisabled(UserExisting(task, users))
    THEN UserExisting(task, users)
  ELSE IF program = "user_sevt" /\ UserDisabled(SevtExisting(task, users))
    THEN SevtExisting(task, users)
  ELSE Null

IsEnable(c, id) == c.method = "post" /\ c.target = "users/id/enable" /\ c.id = id

\* C23 (re-enable before update): a non-check present on a user that exists
\* but is disabled reports changed=true and issues the enable call; when a
\* supplied field differs as well, a PUT follows, and every PUT comes after the
\* enable call; afterwards the user has no disabled_at.
C23_EnableBeforeUpdate ==
  DisabledFound.kind = "record"
  => LET u == DisabledFound.val
         r == Run("present", "single", FALSE)
     IN /\ Ok(r) /\ r.result.changed
        /\ \E i \in DOMAIN r.calls : IsEnable(r.calls[i], u.id)
        /\ SuppliedDiffers("present") =>
             \E j \in DOMAIN r.calls : r.calls[j].method = "put" /\ r.calls[j].id = u.id
        /\ \A j \in DOMAIN r.calls :
             r.calls[j].method = "put" =>
               \E i \in 1..(j - 1) : IsEnable(r.calls[i], u.id)
        /\ \E v \in r.users : v.id = u.id /\ v.disabled_at = NoInt

\* a present has just enabled a disabled user and then updated it
C23_Witness ==
  /\ program \in {"user", "user_sevt"} /\ task # NoTask
  /\ last.state = "present" /\ ~last.check_mode /\ Ok(last) /\ last.result.changed
  /\ Len(last.calls) = 2
  /\ last.calls[1].method = "post" /\ last.calls[1].target = "users/id/enable"
  /\ last.calls[2].method = "put" /\ last.calls[2].id = last.calls[1].id
  /\ \E v \in users : v.id = last.calls[1].id /\ v.disabled_at = NoInt

\* C24 (natural-key uniqueness): after any sequence of invocations run one
\* after another the remote state holds at most one record per natural key:
\* tenant name; role name and scope; user email; NAT config VRF, subnet and
\* port range; interface intent VRF.
C24_NaturalKeyUnique ==
  /\ \A a, b \in tenants : a.name = b.name => a = b
  /\ \A a, b \in roles : a.name = b.name /\ a.app_scope_id = b.app_scope_id => a = b
  /\ \A a, b \in users : a.email = b.email => a = b
  /\ \A a, b \in nat_configs :
       (/\ a.vrf_id = b.vrf_id /\ a.src_subnet = b.src_subnet
        /\ a.src_port_range_start = b.src_port_range_start
        /\ a.src_port_range_end = b.src_port_range_end) => a = b
  /\ \A i, j \in DOMAIN intents : intents[i].vrf_id = intents[j].vrf_id => i = j

\* C25 (tenant id generation): when the task gives no id and its name resolves
\* to no tenant, the id the module generates is the largest integer not above
\* 676769 that no existing tenant has, and it is the id of the tenant a
\* non-check present creates.
C25_TenantIdGeneration ==
  (/\ program = "tenant" /\ task # NoTask
   /\ task.id = NoStr /\ task.name # NoStr
   /\ TenantFound = Null)
  => LET id == TenantId("present", task, "single", tenants)
         r == Run("present", "single", FALSE)
     IN /\ "int" \in DOMAIN id
        /\ id.int <= TenantIdStart
        /\ id.int \notin Ids(tenants)
        /\ \A n \in (id.int + 1)..TenantIdStart : n \in Ids(tenants)
        /\ Ok(r) /\ Len(r.calls) = 1
        /\ r.calls[1].method = "post" /\ r.calls[1].payload.id = id
        /\ Ids(r.tenants) = Ids(tenants) \cup {id.int}
        /\ Cardinality(r.tenants) = Cardinality(tenants) + 1

\* a second tenant has just been created under the id below 676769
C25_Witness ==
  /\ program = "tenant" /\ task # NoTask /\ task.id = NoStr
  /\ last.state = "present" /\ ~last.check_mode /\ Ok(last)
  /\ Len(last.calls) = 1 /\ last.calls[1].method = "post"
  /\ last.calls[1].payload.id = PyInt(TenantIdStart - 1)
  /\ Ids(tenants) = {TenantIdStart, TenantIdStart - 1}

\* the task of tetration_interface_intent passes the checks of lines 175-209
IntentResolved ==
  /\ program = "intent" /\ task # NoTask
  /\ TruthyStr(task.vrf_name) \/ TruthyStr(task.vrf_id)
  /\ TruthyStr(task.inventory_filter_name) \/ TruthyStr(task.inventory_filter_id)
  /\ IntentVrfId(task, tenants) # PyNone
  /\ IntentFilterId(task, scopes) # NoStr

\* the entry is an intent for the VRF the task asks for
ForRequestedVrf(e) == IntField(e.vrf_id) = IntField(IntentVrfId(task, tenants))

Others(list) == SelectSeq(list, LAMBDA e : ~ForRequestedVrf(e))

Requested(list) == SelectSeq(list, ForRequestedVrf)

\* C26 (interface intent frame): the list a non-check present or absent posts
\* differs from the list it read only in the entry of the requested VRF:
\* appended when there was none, replaced in place when its filter differs,
\* removed under absent; the entries of the other VRFs are posted unchanged in
\* the same order and the posted list never holds two entries of the requested
\* VRF.
C26_IntentFrame ==
  IntentResolved
  => \A state \in {"present", "absent"} :
       LET r == Run(state, "single", FALSE)
       IN \A i \in DOMAIN r.calls :
            r.calls[i].method = "post" =>
              LET posted == r.calls[i].payload.intents
              IN /\ Others(posted) = Others(intents)
                 /\ Len(Requested(posted)) <= 1
                 /\ state = "absent" => Requested(posted) = <<>>
                 /\ state = "present" =>
                      /\ Len(Requested(posted)) = 1
                      /\ Requested(posted)[1].inventory_filter_id
                           = IntentFilterId(task, scopes)
                      /\ Len(posted) = IF Requested(intents) = <<>>
                                         THEN Len(intents) + 1 ELSE Len(intents)

\* the entry carries the cross-references a check-mode present attaches
Annotated(e) == "inventory_filter" \in DOMAIN e /\ "vrf_name" \in DOMAIN e

\* C27 (interface intent check-mode object): when a check-mode present reports
\* changed=true, the returned list holds exactly one entry of the requested
\* VRF, that entry carries the requested inventory_filter_id, and the
\* inventory_filter and vrf_name cross-references are attached to that entry
\* and to no other, whether the entry was appended or replaced an existing one
\* (the list read holds one entry per VRF).
C27_CheckModeObject ==
  (/\ program = "intent"
   /\ \A i, j \in DOMAIN intents : intents[i].vrf_id = intents[j].vrf_id => i = j)
  => \A p \in IntentParams :
       LET r == IntentMain("present", p, "single", TRUE, python, intents, tenants,
                           scopes)
       IN (Ok(r) /\ r.result.changed) =>
            LET list == r.result.object.val
                mine == {i \in DOMAIN list :
                           IntField(list[i].vrf_id) = IntField(IntentVrfId(p, tenants))}
            IN /\ r.result.object.kind = "list"
               /\ Cardinality(mine) = 1
               /\ \A i \in mine :
                    /\ list[i].inventory_filter_id = IntentFilterId(p, scopes)
                    /\ Annotated(list[i])
               /\ \A i \in DOMAIN list \ mine : ~Annotated(list[i])

\* C28 (tenant query all): a query with query_type=all returns the tenants of
\* the collection except those named Tetration, Unknown or Default, whatever
\* name the task gives, and reports changed=false.
C28_TenantQueryAll ==
  (program = "tenant" /\ task # NoTask)
  => \A check \in BOOLEAN :
       LET r == Run("query", "all", check)
       IN /\ Ok(r) /\ ~r.result.changed
          /\ r.result.object.kind = "list"
          /\ Range(r.result.object.val) = {t \in tenants : t.name \notin BuiltinTenants}

\* the enabled account an absent of tetration_user_sevt with reuse_domain finds
SevtReusable ==
  IF /\ program = "user_sevt" /\ task # NoTask
     /\ TruthyStr(task.reuse_domain)
     /\ Truthy(SevtExisting(task, users))
     /\ ~UserDisabled(SevtExisting(task, users))
    THEN SevtExisting(task, users) ELSE Null

\* C29 (account reuse in tetration_user_sevt): a non-check absent with
\* reuse_domain renames the email of the user to <id>@<reuse_domain> and then
\* disables the account; a later non-check present for a new email with the
\* same reuse_domain enables and then updates a disabled account of that domain
\* (that very account when no other one is free) instead of POSTing a user, so
\* there are as many user records after the pair as before it.
C29_AccountReuse ==
  SevtReusable.kind = "record"
  => LET u == SevtReusable.val
         blank == SevtBlankEmail(u.id, task.reuse_domain)
         r1 == Run("absent", "single", FALSE)
     IN /\ Ok(r1) /\ r1.result.changed
        /\ r1.calls = <<Call("put", "users/id", u.id, [email |-> blank]),
                        Call("delete", "users/id", u.id, NoFields)>>
        /\ \E v \in r1.users : v.id = u.id /\ v.email = blank /\ v.disabled_at # NoInt
        /\ \A e \in UserEmails :
             (\A v \in r1.users : v.email # e) =>
               LET p2 == [task EXCEPT !.email = e, !.user_id = NoInt]
                   r2 == SevtMain("present", p2, FALSE, r1.users, scopes,
                                  AnyId(UserIds, r1.users))
                   free == {v \in users : v.disabled_at # NoInt
                              /\ SevtInDomain(task.reuse_domain, v.email)}
               IN /\ Ok(r2) /\ r2.result.changed
                  /\ Len(r2.calls) = 2
                  /\ r2.calls[1].method = "post"
                  /\ r2.calls[1].target = "users/id/enable"
                  /\ r2.calls[2].method = "put" /\ r2.calls[2].id = r2.calls[1].id
                  /\ free = {} => r2.calls[1].id = u.id
                  /\ Cardinality(r2.users) = Cardinality(users)
                  /\ \E v \in r2.users :
                       /\ v.id = r2.calls[1].id
                       /\ v.email = e /\ v.disabled_at = NoInt

\* a present for a new email has just taken over the only account, which an
\* absent with reuse_domain had renamed and disabled
C29_Witness ==
  /\ program = "user_sevt" /\ task # NoTask /\ TruthyStr(task.reuse_domain)
  /\ last.state = "present" /\ ~last.check_mode /\ Ok(last)
  /\ Len(last.calls) = 2
  /\ last.calls[1].target = "users/id/enable"
  /\ "email" \in DOMAIN last.calls[1].payload
  /\ last.calls[2].method = "put"
  /\ Cardinality(users) = 1
  /\ \A v \in users : v.email = task.email /\ v.disabled_at = NoInt

-----------------------------------------------------------------------------
(* Two present runs of tetration_interface_intent side by side.  A run reads
   the intent list (lines 211-215), later posts the whole list (lines 242-246)
   and then reads it back (lines 247-250); the platform serves one request at
   a time, so the runs interleave between these calls. *)

RaceProcs == {1, 2}

\* the two VRFs of the platform
RaceVrfs ==
  Vrfs \cup {[id |-> TenantIdStart - 1, name |-> "Eng", switch_vrfs |-> <<>>]}

\* run 1 asks for VRF Default and run 2 for VRF Eng, each with a filter id
RaceParams(i) ==
  {[vrf_name |-> IF i = 1 THEN "Default" ELSE "Eng", vrf_id |-> NoStr,
    inventory_filter_name |-> NoStr, inventory_filter_id |-> f] : f \in {"f1", "f2"}}

\* the intent lists the runs may find: at most one intent per VRF
RaceLists ==
  LET d == [vrf_id |-> PyInt(TenantIdStart), inventory_filter_id |-> "f1"]
      e == [vrf_id |-> PyInt(TenantIdStart - 1), inventory_filter_id |-> "f1"]
  IN {<<>>, <<d>>, <<e>>, <<d, e>>, <<e, d>>}

RaceInit ==
  /\ program = "intent"
  /\ python \in {2, 3}
  /\ tenants = RaceVrfs
  /\ roles = {} /\ users = {} /\ nat_configs = {}
  /\ intents \in RaceLists
  /\ scopes = AppScopes
  /\ plays = 0 /\ task = NoTask /\ last = NoInvocation
  /\ \E p1 \in RaceParams(1), p2 \in RaceParams(2) :
       race = [pc |-> [i \in RaceProcs |-> "start"],
               params |-> <<p1, p2>>,
               read |-> [i \in RaceProcs |-> <<>>],
               seen |-> [i \in RaceProcs |-> 0],
               changed |-> [i \in RaceProcs |-> FALSE],
               posted |-> [i \in RaceProcs |-> <<>>],
               object |-> [i \in RaceProcs |-> Null],
               order |-> <<>>]

\* lines 211-215: current_intents, and how many POSTs came before this read
RaceRead(i) ==
  /\ race.pc[i] = "start"
  /\ race' = [race EXCEPT !.pc[i] = "read", !.read[i] = intents,
                          !.seen[i] = Len(race.order)]
  /\ UNCHANGED <<program, python, remote, plays, task, last>>

RaceBaseFresh(read, current) == current

\* lines 236-246: the list posted is built from current_intents, the list read
\* at line 211, whatever the list of the platform is by now
RaceBase(read, current) == read

\* lines 216-246: the entry is looked for in the list read; the run stops on
\* the TypeError of line 235, or leaves the list alone, or posts the whole list
RacePost(i) ==
  /\ race.pc[i] = "read"
  /\ LET p == race.params[i]
         base == RaceBase(race.read[i], intents)
         vrf_id == IntentVrfId(p, tenants)
         filter_id == IntentFilterId(p, scopes)
         idx == IntentIndex(base, vrf_id)
         differs == IntentFilterDiffers(base, idx, filter_id)
         new_object == [vrf_id |-> vrf_id, inventory_filter_id |-> filter_id]
         list == IF differs THEN [base EXCEPT ![idx] = new_object]
                 ELSE Append(base, new_object)
     IN IF IndexCompareRaises(python, idx)
          THEN /\ race' = [race EXCEPT !.pc[i] = "crashed"]
               /\ UNCHANGED intents
        ELSE IF idx # 0 /\ ~differs
          THEN /\ race' = [race EXCEPT !.pc[i] = "done", !.object[i] = List(base)]
               /\ UNCHANGED intents
        ELSE /\ intents' = PostIntents(intents, [intents |-> list])
             /\ race' = [race EXCEPT !.pc[i] = "posted", !.changed[i] = TRUE,
                                     !.posted[i] = list,
                                     !.order = Append(@, i)]
  /\ UNCHANGED <<program, python, tenants, roles, users, nat_configs, scopes, plays,
                 task, last>>

\* lines 247-250: the object returned is the list as the platform has it now
RaceGet(i) ==
  /\ race.pc[i] = "posted"
  /\ race' = [race EXCEPT !.pc[i] = "done", !.object[i] = GetIntents(intents)]
  /\ UNCHANGED <<program, python, remote, plays, task, last>>

RaceNext ==
  \/ \E i \in RaceProcs : RaceRead(i)
  \/ \E i \in RaceProcs : RacePost(i)
  \/ \E i \in RaceProcs : RaceGet(i)

RaceSpec == RaceInit /\ [][RaceNext]_vars

\* the intent run i asks for, as the platform stores it
RaceIntent(i) ==
  [vrf_id |-> PyInt(IntField(IntentVrfId(race.params[i], tenants))),
   inventory_filter_id |-> IntentFilterId(race.params[i], scopes)]

\* both runs read the list before either posted, and both have posted
BothReadFirst ==
  /\ \A i \in RaceProcs : race.pc[i] \in {"posted", "done"} /\ race.seen[i] = 0
  /\ Len(race.order) = 2

\* C30 (read-write race on interface intents): when two non-check present runs
\* for different VRFs both read the intent list before either posts, both
\* report changed=true, the list of the platform is the one the later run
\* posted, and it lacks the intent of the run that posted first.
C30_LostUpdate ==
  BothReadFirst
  => LET first == race.order[1]
         later == race.order[2]
     IN /\ race.changed[first] /\ race.changed[later]
        /\ intents = PostIntents(intents, [intents |-> race.posted[later]])
        /\ ~InSeq(RaceIntent(first), intents)
        /\ InSeq(RaceIntent(later), intents)

\* run 1 posted first and has returned, run 2 posted after it: the list holds
\* the intent of run 2 alone
C30_Witness ==
  /\ BothReadFirst
  /\ race.order = <<1, 2>> /\ race.pc[1] = "done"
  /\ race.read[1] = <<>>
  /\ intents = <<RaceIntent(2)>>

====
